---- MODULE Spec2Model ----
(***************************************************************************)
(* A model of the yagc cache (package cache): a map guarded by a           *)
(* sync.RWMutex, flushed to a Persistence backend through an Encoding      *)
(* whenever the Policy triggers.  Each goroutine calling into the cache is *)
(* a thread of the model; a public operation is the sequence of steps its  *)
(* code takes between Lock/RLock and the deferred Unlock/RUnlock.          *)
(*                                                                         *)
(* Spec     one goroutine calls into a cache built with any policy and     *)
(*          either backend: the contract of the operations.                *)
(* ReplicaSpec  one goroutine, the Always policy and a file; a second      *)
(*          cache loads copies of the file: the round trip.                *)
(* BatchSpec  one goroutine and a Batched policy, the Trigger calls        *)
(*          counted: the batches.                                          *)
(* PullSpec  one goroutine and a second cache: Pull and Merge.             *)
(* RaceSpec  one goroutine that pulls while others mutate the second      *)
(*          cache.                                                         *)
(* ConcSpec all goroutines call into a cache built with any policy and the *)
(*          default backend (Discard): the locking.                        *)
(***************************************************************************)
EXTENDS Integers, Sequences, FiniteSets, TLC

\* ---- bounds of the model ----
NumThreads == 2
NumKeys == 2
MaxVal == 1
MaxBatch == 2
MaxSize == 3
MaxTriggers == 6

Threads == 1..NumThreads
K == 1..NumKeys
ZeroValue == 0
V == ZeroValue..MaxVal

\* ---- Go maps: a function from the keys present to their values ----
EmptyMap == [x \in {} |-> ZeroValue]

Maps == UNION {[S -> V] : S \in SUBSET K}

\* v, ok := m[k]
MapIndex(m, k) == IF k \in DOMAIN m THEN <<m[k], TRUE>> ELSE <<ZeroValue, FALSE>>

\* m[k] = v
MapAssign(m, k, v) == [x \in DOMAIN m \cup {k} |-> IF x = k THEN v ELSE m[x]]

\* faulty variant: delete empties the map
MapDeleteAll(m, k) == EmptyMap

\* delete(m, k)
MapDelete(m, k) == [x \in DOMAIN m \ {k} |-> m[x]]

\* ---- Encoding: the whole mapping to bytes and back (JSON writes the ----
\* ---- entries of a map sorted by key)                                ----
MinOf(S) == CHOOSE x \in S : \A y \in S : x <= y

RECURSIVE EncodeEntries(_, _)
EncodeEntries(m, S) ==
    IF S = {} THEN <<>>
    ELSE LET k == MinOf(S)
         IN  <<<<k, m[k]>>>> \o EncodeEntries(m, S \ {k})

\* faulty variant: entries holding the zero value are left out (omitempty)
EncodeOmitsZero(m) == EncodeEntries(m, {k \in DOMAIN m : m[k] # ZeroValue})

Encode(m) == EncodeEntries(m, DOMAIN m)

RECURSIVE DecodeInto(_, _)
DecodeInto(m, data) ==
    IF data = <<>> THEN m
    ELSE DecodeInto(MapAssign(m, Head(data)[1], Head(data)[2]), Tail(data))

Decode(data) == DecodeInto(EmptyMap, data)

\* ---- Policy ----
Policies ==
    {[kind |-> "Always", Size |-> 0, count |-> 0],
     [kind |-> "Never", Size |-> 0, count |-> 0]}
    \cup {[kind |-> "Batched", Size |-> n, count |-> 0] : n \in 1..MaxBatch}

\* faulty variant: Always never asks for a flush
TriggerFiresAlwaysIdle(p) ==
    CASE p.kind = "Always" -> FALSE
      [] p.kind = "Never" -> FALSE
      [] p.kind = "Batched" -> p.count + 1 = p.Size

\* faulty variant: Never asks for a flush every time
TriggerFiresNeverEager(p) ==
    CASE p.kind = "Always" -> TRUE
      [] p.kind = "Never" -> TRUE
      [] p.kind = "Batched" -> p.count + 1 = p.Size

\* faulty variant: a full batch is tested with >= in place of ==
TriggerFiresAtLeast(p) ==
    CASE p.kind = "Always" -> TRUE
      [] p.kind = "Never" -> FALSE
      [] p.kind = "Batched" -> p.count + 1 >= p.Size

\* the value Trigger returns
TriggerFires(p) ==
    CASE p.kind = "Always" -> TRUE
      [] p.kind = "Never" -> FALSE
      [] p.kind = "Batched" -> p.count + 1 = p.Size

\* faulty variant: the counter is not reset when the batch is full
TriggerNextKeepsCount(p) ==
    IF p.kind = "Batched"
    THEN [p EXCEPT !.count = p.count + 1]
    ELSE p

\* the policy after Trigger has run
TriggerNext(p) ==
    IF p.kind = "Batched"
    THEN [p EXCEPT !.count = IF p.count + 1 = p.Size THEN 0 ELSE p.count + 1]
    ELSE p

\* ---- Persistence ----
Backends == {"File", "Discard"}

\* what the backend holds after Write(data)
Written(b, held, data) == IF b = "File" THEN data ELSE held

\* Read returns an error: Discard always, File when nothing was written
ReadErrs(b, held) == b = "Discard" \/ held = "nodata"

\* ---- operations ----
WriteOps == {"Put", "Replace", "Delete", "Clear", "Load"}
\* the operations that call storeNoLock(false)
MutatingOps == {"Put", "Replace", "Delete", "Clear"}

ReadOps == {"Get", "Size", "Keys", "Store"}
Ops == WriteOps \cup ReadOps

\* the arguments a call of each operation can be given
ArgsOf(o) ==
    CASE o \in {"Put", "Replace"} -> {<<k, v>> : k \in K, v \in V}
      [] o \in {"Get", "Delete"} -> {<<k>> : k \in K}
      [] OTHER -> {<<>>}

VARIABLES
    store,      \* Cache.store
    lock,       \* Cache.lock: w = held by a writer, r = number of readers
    policy,     \* Cache.policy
    backend,    \* Cache.persistence: which backend the cache was built with
    persisted,  \* what the backend holds ("nodata" or bytes)
    pc,         \* where each thread is in its call
    frame,      \* the arguments and locals of each thread's call
    abs,        \* the mapping of the sequential execution (linearization)
    triggers,   \* Trigger invocations made by each thread's current call
    other,      \* the mapping of a second cache (the replica, the source of Pull)
    pull,       \* the arguments and locals of each thread's Pull or Merge
    otherLock,  \* the RWMutex of the second cache
    tally,      \* the Trigger calls and the flushes they asked for, when counted
    flushed     \* the mapping that the last successful Write persisted

vars == <<store, lock, policy, backend, persisted, pc, frame, abs, triggers,
          other, otherLock, pull, tally, flushed>>

\* the policy a frame remembers when its thread is in no call
NoPolicy == [kind |-> "none", Size |-> 0, count |-> 0]

\* the frame of a thread that is in no call
NoFrame ==
    [op |-> "none", args |-> <<>>, ok |-> FALSE, old |-> ZeroValue,
     keys |-> <<>>, size |-> 0, data |-> <<>>, err |-> "nil",
     pre |-> EmptyMap, exp |-> <<>>,
     prePolicy |-> NoPolicy, prePersisted |-> "none"]

\* the tally of a specification that does not count the Trigger calls
NoTally == [on |-> FALSE, trig |-> 0, flush |-> 0]

\* the Pull frame of a thread that is in no Pull or Merge
NoPull ==
    [op |-> "none", arg |-> "none", stage |-> "none", keys |-> <<>>,
     recv |-> "this", v |-> ZeroValue, found |-> FALSE, err |-> "nil",
     pre |-> EmptyMap, preOther |-> EmptyMap, held |-> {},
     prePolicy |-> NoPolicy, prePersisted |-> "none"]

\* a sync.RWMutex that nobody holds or waits for: w, a writer is inside; r,
\* the readers inside; q, the goroutines blocked in Lock or RLock, in the
\* order of their arrival
NoLock == [w |-> FALSE, r |-> 0, q |-> <<>>]

\* New: the cache as built, whatever policy it is given
Built ==
    /\ store = EmptyMap
    /\ lock = NoLock
    /\ otherLock = NoLock
    /\ backend \in Backends
    /\ persisted = "nodata"
    /\ pc = [t \in Threads |-> "idle"]
    /\ frame = [t \in Threads |-> NoFrame]
    /\ abs = EmptyMap
    /\ triggers = [t \in Threads |-> 0]
    /\ pull = [t \in Threads |-> NoPull]
    /\ flushed = EmptyMap

Init ==
    /\ Built
    /\ policy \in Policies
    /\ other = EmptyMap
    /\ tally = NoTally

\* ---- the operations run alone, start to end (their sequential meaning) ----
Sequential(m, o, a) ==
    CASE o = "Put" ->
           IF a[1] \in DOMAIN m
           THEN [map |-> m, ret |-> FALSE]
           ELSE [map |-> MapAssign(m, a[1], a[2]), ret |-> TRUE]
      [] o = "Replace" -> [map |-> MapAssign(m, a[1], a[2]), ret |-> MapIndex(m, a[1])]
      [] o = "Get" -> [map |-> m, ret |-> MapIndex(m, a[1])]
      [] o = "Delete" -> [map |-> MapDelete(m, a[1]), ret |-> MapIndex(m, a[1])]
      [] o = "Size" -> [map |-> m, ret |-> Cardinality(DOMAIN m)]
      [] o = "Clear" -> [map |-> EmptyMap, ret |-> "none"]
      [] o = "Keys" -> [map |-> m, ret |-> DOMAIN m]
      [] OTHER -> [map |-> m, ret |-> "none"]

Range(s) == {s[i] : i \in DOMAIN s}

\* faulty variant: Put reports failure when the flush that it caused failed
RetPutReportsFlush(f) ==
    CASE f.op = "Put" -> ~f.ok /\ f.err = "nil"
      [] f.op \in {"Replace", "Get", "Delete"} -> <<f.old, f.ok>>
      [] f.op = "Size" -> f.size
      [] f.op = "Keys" -> f.keys
      [] f.op \in {"Store", "Load"} -> f.err
      [] OTHER -> "none"

\* faulty variant: Load logs its error and returns nil
RetLoadSwallows(f) ==
    CASE f.op = "Put" -> ~f.ok
      [] f.op \in {"Replace", "Get", "Delete"} -> <<f.old, f.ok>>
      [] f.op = "Size" -> f.size
      [] f.op = "Keys" -> f.keys
      [] f.op = "Store" -> f.err
      [] f.op = "Load" -> "nil"
      [] OTHER -> "none"

\* what the call returns, from its locals at the return statement
Ret(f) ==
    CASE f.op = "Put" -> ~f.ok
      [] f.op \in {"Replace", "Get", "Delete"} -> <<f.old, f.ok>>
      [] f.op = "Size" -> f.size
      [] f.op = "Keys" -> f.keys
      [] f.op \in {"Store", "Load"} -> f.err
      [] OTHER -> "none"

\* ---- sync.RWMutex ----
\* faulty variant: Lock does not wait for the readers to leave
CanLockIgnoringReaders(l) == ~l.w

CanLock(l) == ~l.w /\ l.r = 0

\* faulty variant: RLock does not wait for the writer to leave
CanRLockAlways(l) == TRUE

CanRLock(l) == ~l.w

\* the mutex admits goroutine t: nobody is blocked in it, or t was the
\* first to be
Admits(l, t) == IF l.q = <<>> THEN TRUE ELSE Head(l.q) = t

\* the goroutines blocked in the mutex once t has got it
Left(l, t) == IF l.q # <<>> /\ Head(l.q) = t THEN Tail(l.q) ELSE l.q

\* ---- steps of a call ----
\* faulty variant: Store asks the policy, as the mutating operations do
FirstStepStoreAsks(o) ==
    CASE o \in {"Put", "Replace", "Get", "Delete"} -> "lookup"
      [] o = "Size" -> "len"
      [] o = "Clear" -> "assign"
      [] o = "Keys" -> "iter"
      [] o = "Store" -> "trigger"
      [] o = "Load" -> "read"

\* faulty variant: Size asks the policy for a flush
FirstStepSizeAsks(o) ==
    CASE o \in {"Put", "Replace", "Get", "Delete"} -> "lookup"
      [] o = "Size" -> "trigger"
      [] o = "Clear" -> "assign"
      [] o = "Keys" -> "iter"
      [] o = "Store" -> "encode"
      [] o = "Load" -> "read"

\* faulty variant: Load asks the policy before it reads
FirstStepLoadAsks(o) ==
    CASE o \in {"Put", "Replace", "Get", "Delete"} -> "lookup"
      [] o = "Size" -> "len"
      [] o = "Clear" -> "assign"
      [] o = "Keys" -> "iter"
      [] o = "Store" -> "encode"
      [] o = "Load" -> "trigger"

\* the statement a call runs first once it holds the lock
FirstStep(o) ==
    CASE o \in {"Put", "Replace", "Get", "Delete"} -> "lookup"
      [] o = "Size" -> "len"
      [] o = "Clear" -> "assign"
      [] o = "Keys" -> "iter"
      [] o = "Store" -> "encode"
      [] o = "Load" -> "read"

\* a goroutine calls operation o with arguments a and gets the lock:
\* c.lock.Lock() / c.lock.RLock()
Enter(t, o, a) ==
    /\ pc[t] = "idle"
    /\ IF o \in WriteOps
       THEN CanLock(lock) /\ lock' = [lock EXCEPT !.w = TRUE, !.q = Left(lock, t)]
       ELSE CanRLock(lock) /\ lock' = [lock EXCEPT !.r = lock.r + 1, !.q = Left(lock, t)]
    /\ Admits(lock, t)
    /\ LET seq == Sequential(abs, o, a)
       IN  /\ abs' = seq.map
           /\ frame' = [frame EXCEPT ![t] = [NoFrame EXCEPT !.op = o, !.args = a,
                                                            !.pre = store,
                                                            !.exp = <<seq.ret>>,
                                                            !.prePolicy = policy,
                                                            !.prePersisted = persisted]]
    /\ pc' = [pc EXCEPT ![t] = FirstStep(o)]
    /\ triggers' = [triggers EXCEPT ![t] = 0]
    /\ UNCHANGED <<store, policy, backend, persisted>>
    /\ UNCHANGED <<other, otherLock, tally, flushed>>

\* a goroutine that is in no Pull or Merge calls operation o
Call(t, o, a) ==
    /\ pull[t].op = "none"
    /\ Enter(t, o, a)
    /\ UNCHANGED pull

\* faulty variant: Put stores when the key is present and skips when it is absent
PutAfterLookupInverted(ok) == IF ok THEN "assign" ELSE "unlock"

\* faulty variant: Put stores whether or not the key is present
PutAfterLookupAlways(ok) == "assign"

\* faulty variant: Put asks the policy when the key is present
PutAfterLookupFlushes(ok) == IF ok THEN "trigger" ELSE "assign"

\* where Put goes after its lookup
PutAfterLookup(ok) == IF ok THEN "unlock" ELSE "assign"

\* v, ok := c.store[k]
Lookup(t) ==
    /\ pc[t] = "lookup"
    /\ LET f == frame[t]
           r == MapIndex(store, f.args[1])
       IN  /\ frame' = [frame EXCEPT ![t].ok = r[2],
                                     ![t].old = IF f.op = "Put" THEN ZeroValue ELSE r[1]]
           /\ pc' = [pc EXCEPT ![t] =
                        CASE f.op = "Put" -> PutAfterLookup(r[2])
                          [] f.op = "Get" -> "unlock"
                          [] OTHER -> "assign"]
    /\ UNCHANGED <<store, lock, policy, backend, persisted, abs, triggers>>
    /\ UNCHANGED <<other, otherLock, pull, tally, flushed>>

\* faulty variant: Replace keeps the value of a key that is present
AssignedIfAbsent(m, o, a) ==
    CASE o = "Put" -> MapAssign(m, a[1], a[2])
      [] o = "Replace" -> IF a[1] \in DOMAIN m THEN m ELSE MapAssign(m, a[1], a[2])
      [] o = "Delete" -> MapDelete(m, a[1])
      [] o = "Clear" -> EmptyMap

\* faulty variant: Clear leaves the map as it is
AssignedClearKeeps(m, o, a) ==
    CASE o \in {"Put", "Replace"} -> MapAssign(m, a[1], a[2])
      [] o = "Delete" -> MapDelete(m, a[1])
      [] o = "Clear" -> m

\* the mapping after the call's write to c.store
Assigned(m, o, a) ==
    CASE o \in {"Put", "Replace"} -> MapAssign(m, a[1], a[2])
      [] o = "Delete" -> MapDelete(m, a[1])
      [] o = "Clear" -> EmptyMap

\* faulty variant: Delete returns without a flush check
AfterAssignDeleteSkips(o) == IF o = "Delete" THEN "unlock" ELSE "trigger"

\* the statement that follows the write to c.store
AfterAssign(o) == "trigger"

\* c.store[k] = v / delete(c.store, k) / c.store = map[K]V{}
Assign(t) ==
    /\ pc[t] = "assign"
    /\ store' = Assigned(store, frame[t].op, frame[t].args)
    /\ pc' = [pc EXCEPT ![t] = AfterAssign(frame[t].op)]
    /\ UNCHANGED <<lock, policy, backend, persisted, frame, abs, triggers>>
    /\ UNCHANGED <<other, otherLock, pull, tally, flushed>>

\* size := len(c.store)
SizeStep(t) ==
    /\ pc[t] = "len"
    /\ frame' = [frame EXCEPT ![t].size = Cardinality(DOMAIN store)]
    /\ pc' = [pc EXCEPT ![t] = "unlock"]
    /\ UNCHANGED <<store, lock, policy, backend, persisted, abs, triggers>>
    /\ UNCHANGED <<other, otherLock, pull, tally, flushed>>

\* faulty variant: the range loop stops after its first iteration
UnvisitedFirstOnly(m, keys) == IF keys = <<>> THEN DOMAIN m ELSE {}

\* the keys the range loop has still to visit
Unvisited(m, keys) == DOMAIN m \ Range(keys)

\* for k := range c.store { keys = append(keys, k) }: one iteration
Iterate(t) ==
    /\ pc[t] = "iter"
    /\ \E k \in Unvisited(store, frame[t].keys) :
          frame' = [frame EXCEPT ![t].keys = Append(@, k)]
    /\ UNCHANGED <<store, lock, policy, backend, persisted, pc, abs, triggers>>
    /\ UNCHANGED <<other, otherLock, pull, tally, flushed>>

\* the range loop ends
IterateDone(t) ==
    /\ pc[t] = "iter"
    /\ Unvisited(store, frame[t].keys) = {}
    /\ pc' = [pc EXCEPT ![t] = "unlock"]
    /\ UNCHANGED <<store, lock, policy, backend, persisted, frame, abs, triggers>>
    /\ UNCHANGED <<other, otherLock, pull, tally, flushed>>

\* ---- storeNoLock ----
\* the tally after one more Trigger call, which asked for a flush or did not
Tallied(c, fires) ==
    IF c.on
    THEN [c EXCEPT !.trig = @ + 1, !.flush = @ + (IF fires THEN 1 ELSE 0)]
    ELSE c

\* !force && !c.policy.Trigger(): the policy is asked (force is false in the
\* mutating operations)
Trigger(t) ==
    /\ pc[t] = "trigger"
    /\ tally.on => tally.trig < MaxTriggers
    /\ policy' = TriggerNext(policy)
    /\ tally' = Tallied(tally, TriggerFires(policy))
    /\ triggers' = [triggers EXCEPT ![t] = @ + 1]
    /\ pc' = [pc EXCEPT ![t] = IF TriggerFires(policy) THEN "encode" ELSE "unlock"]
    /\ UNCHANGED <<store, lock, backend, persisted, frame, abs>>
    /\ UNCHANGED <<other, otherLock, pull, flushed>>

\* data, err := c.encoding.Encode(c.store)
EncodeStep(t) ==
    /\ pc[t] = "encode"
    /\ frame' = [frame EXCEPT ![t].data = Encode(store)]
    /\ pc' = [pc EXCEPT ![t] = "write"]
    /\ UNCHANGED <<store, lock, policy, backend, persisted, abs, triggers>>
    /\ UNCHANGED <<other, otherLock, pull, tally, flushed>>

\* Encode returns an error: storeNoLock returns it
EncodeFails(t) ==
    /\ pc[t] = "encode"
    /\ frame' = [frame EXCEPT ![t].err = "encode"]
    /\ pc' = [pc EXCEPT ![t] = "unlock"]
    /\ UNCHANGED <<store, lock, policy, backend, persisted, abs, triggers>>
    /\ UNCHANGED <<other, otherLock, pull, tally, flushed>>

\* err = c.persistence.Write(data)
WriteStep(t) ==
    /\ pc[t] = "write"
    /\ persisted' = Written(backend, persisted, frame[t].data)
    /\ flushed' = IF backend = "File" THEN store ELSE flushed
    /\ pc' = [pc EXCEPT ![t] = "unlock"]
    /\ UNCHANGED <<store, lock, policy, backend, frame, abs, triggers>>
    /\ UNCHANGED <<other, otherLock, pull, tally>>

\* Write returns an error: storeNoLock returns it
WriteFails(t) ==
    /\ pc[t] = "write"
    /\ frame' = [frame EXCEPT ![t].err = "write"]
    /\ pc' = [pc EXCEPT ![t] = "unlock"]
    /\ UNCHANGED <<store, lock, policy, backend, persisted, abs, triggers>>
    /\ UNCHANGED <<other, otherLock, pull, tally, flushed>>

\* ---- loadNoLock ----
\* data, err := c.persistence.Read()
ReadStep(t) ==
    /\ pc[t] = "read"
    /\ ~ReadErrs(backend, persisted)
    /\ frame' = [frame EXCEPT ![t].data = persisted]
    /\ pc' = [pc EXCEPT ![t] = "decode"]
    /\ UNCHANGED <<store, lock, policy, backend, persisted, abs, triggers>>
    /\ UNCHANGED <<other, otherLock, pull, tally, flushed>>

\* Read returns an error: loadNoLock returns it
ReadFails(t) ==
    /\ pc[t] = "read"
    /\ ReadErrs(backend, persisted)
    /\ frame' = [frame EXCEPT ![t].err = "read"]
    /\ pc' = [pc EXCEPT ![t] = "unlock"]
    /\ UNCHANGED <<store, lock, policy, backend, persisted, abs, triggers>>
    /\ UNCHANGED <<other, otherLock, pull, tally, flushed>>

\* faulty variant: the decoded entries are added to the mapping in memory
LoadedMerged(m, data) == DecodeInto(m, data)

\* the mapping in memory after loadNoLock has decoded data: m is dropped
Loaded(m, data) == Decode(data)

\* m, err := c.encoding.Decode(data); c.store = m
DecodeStep(t) ==
    /\ pc[t] = "decode"
    /\ store' = Loaded(store, frame[t].data)
    /\ abs' = Loaded(abs, frame[t].data)
    /\ pc' = [pc EXCEPT ![t] = "unlock"]
    /\ UNCHANGED <<lock, policy, backend, persisted, frame, triggers>>
    /\ UNCHANGED <<other, otherLock, pull, tally, flushed>>

\* Decode returns an error (the bytes are not an encoding of a map):
\* loadNoLock returns it before the assignment to c.store
DecodeFails(t) ==
    /\ pc[t] = "decode"
    /\ frame' = [frame EXCEPT ![t].err = "decode"]
    /\ pc' = [pc EXCEPT ![t] = "unlock"]
    /\ UNCHANGED <<store, lock, policy, backend, persisted, abs, triggers>>
    /\ UNCHANGED <<other, otherLock, pull, tally, flushed>>

\* the deferred c.lock.Unlock() / c.lock.RUnlock(), and the return
Unlock(t) ==
    /\ pc[t] = "unlock"
    /\ lock' = IF frame[t].op \in WriteOps
               THEN [lock EXCEPT !.w = FALSE]
               ELSE [lock EXCEPT !.r = lock.r - 1]
    /\ pc' = [pc EXCEPT ![t] = "idle"]
    /\ frame' = [frame EXCEPT ![t] = NoFrame]
    /\ triggers' = [triggers EXCEPT ![t] = 0]
    /\ UNCHANGED <<store, policy, backend, persisted, abs>>
    /\ UNCHANGED <<other, otherLock, tally, flushed>>

\* the stages of a Pull or Merge that waits for the result of a call it made
\* on the first cache
TakeStages == {"keysret", "getret"}

\* the return of a call whose result no Pull or Merge is waiting for
Release(t) ==
    /\ pull[t].stage \notin TakeStages
    /\ Unlock(t)
    /\ UNCHANGED pull

\* ---- Pull and Merge ----
PullOps == {"Pull", "Merge"}

\* the argument of Pull and Merge: a nil pointer or the second cache
PullArgs == {"nil", "other"}

\* the caches that a Pull or Merge can be given: the second cache, or the
\* receiver itself
PullSources == {"other", "this"}

\* faulty variant: the error of the nil check is logged and not returned
PullErrSwallowed(arg) == "nil"

\* if other == nil { return errors.New("invalid cache") }
PullErr(arg) == IF arg = "nil" THEN "invalid cache" ELSE "nil"

\* the pairs (key, value) that mapping m holds
Pairs(m) == {<<k, m[k]>> : k \in DOMAIN m}

\* Pull(other) / Merge(other) is called and checks its argument; the lock of
\* the receiver is not taken
PullCall(t, o, arg) ==
    /\ pc[t] = "idle"
    /\ pull[t].op = "none"
    /\ pull' = [pull EXCEPT ![t] =
                   [NoPull EXCEPT !.op = o, !.arg = arg,
                                  !.stage = IF arg = "nil" THEN "return" ELSE "keys",
                                  !.err = PullErr(arg),
                                  !.pre = store, !.preOther = other,
                                  !.held = IF arg = "other" THEN Pairs(other) ELSE {},
                                  !.prePolicy = policy,
                                  !.prePersisted = persisted]]
    /\ UNCHANGED <<store, lock, policy, backend, persisted, pc, frame, abs, triggers>>
    /\ UNCHANGED <<other, otherLock, tally, flushed>>

\* the orders in which a range loop can give the keys of m
Orders(m) ==
    {s \in [1..Cardinality(DOMAIN m) -> DOMAIN m] : Range(s) = DOMAIN m}

\* keys := other.Keys(), other being the second cache: the call takes the
\* shared lock of that cache, lists the keys and releases the lock
PullKeys(t) ==
    /\ pull[t].stage = "keys"
    /\ pull[t].arg = "other"
    /\ CanRLock(otherLock) /\ Admits(otherLock, t)
    /\ otherLock' = [otherLock EXCEPT !.q = Left(otherLock, t)]
    /\ \E ks \in Orders(other) :
          pull' = [pull EXCEPT ![t].keys = ks, ![t].stage = "loop"]
    /\ UNCHANGED <<store, lock, policy, backend, persisted, pc, frame, abs, triggers>>
    /\ UNCHANGED <<other, tally, flushed>>

\* v, _ := other.Get(k), for the next k of keys, other being the second
\* cache: the call takes the shared lock of that cache, reads and releases
PullGet(t) ==
    /\ pull[t].stage = "loop"
    /\ pull[t].arg = "other"
    /\ pc[t] = "idle"
    /\ pull[t].keys # <<>>
    /\ CanRLock(otherLock) /\ Admits(otherLock, t)
    /\ otherLock' = [otherLock EXCEPT !.q = Left(otherLock, t)]
    /\ pull' = [pull EXCEPT ![t].v = MapIndex(other, Head(pull[t].keys))[1],
                            ![t].found = MapIndex(other, Head(pull[t].keys))[2],
                            ![t].stage = "put"]
    /\ UNCHANGED <<store, lock, policy, backend, persisted, pc, frame, abs, triggers>>
    /\ UNCHANGED <<other, tally, flushed>>

\* faulty variant: Pull stores with Replace, Merge with Put
PullStoresWithReplace(o) == IF o = "Pull" THEN "Replace" ELSE "Put"

\* the operation of the receiver that the loop of Pull / Merge calls
PullStoresWith(o) == "Put"

\* c.Put(k, v): the call begins; the loop goes on when it has returned
PullPut(t) ==
    /\ pull[t].stage = "put"
    /\ pull[t].recv = "this"
    /\ Enter(t, PullStoresWith(pull[t].op), <<Head(pull[t].keys), pull[t].v>>)
    /\ pull' = [pull EXCEPT ![t].keys = Tail(@), ![t].stage = "loop"]

\* the loop ends
PullDone(t) ==
    /\ pull[t].stage = "loop"
    /\ pc[t] = "idle"
    /\ pull[t].keys = <<>>
    /\ pull' = [pull EXCEPT ![t].stage = "return"]
    /\ UNCHANGED <<store, lock, policy, backend, persisted, pc, frame, abs, triggers>>
    /\ UNCHANGED <<other, otherLock, tally, flushed>>

\* return nil / return errors.New("invalid cache")
PullReturn(t) ==
    /\ pull[t].stage = "return"
    /\ pull' = [pull EXCEPT ![t] = NoPull]
    /\ UNCHANGED <<store, lock, policy, backend, persisted, pc, frame, abs, triggers>>
    /\ UNCHANGED <<other, otherLock, tally, flushed>>

\* Pull / Merge with the receiver on the other side: b.Pull(a), b.Merge(a),
\* a being the first cache and b the second
RevCall(t, o) ==
    /\ pc[t] = "idle"
    /\ pull[t].op = "none"
    /\ pull' = [pull EXCEPT ![t] =
                   [NoPull EXCEPT !.op = o, !.arg = "this", !.recv = "other",
                                  !.stage = "keys", !.err = PullErr("this")]]
    /\ UNCHANGED <<store, lock, policy, backend, persisted, pc, frame, abs, triggers>>
    /\ UNCHANGED <<other, otherLock, tally, flushed>>

\* keys := other.Keys(), other being the first cache: the call begins
PullKeysThis(t) ==
    /\ pull[t].stage = "keys"
    /\ pull[t].arg = "this"
    /\ Enter(t, "Keys", <<>>)
    /\ pull' = [pull EXCEPT ![t].stage = "keysret"]

\* keys := other.Keys(), other being the first cache: the call returns
PullTakeKeys(t) ==
    /\ pull[t].stage = "keysret"
    /\ Unlock(t)
    /\ pull' = [pull EXCEPT ![t].keys = Ret(frame[t]), ![t].stage = "loop"]

\* v, _ := other.Get(k), other being the first cache: the call begins
PullGetThis(t) ==
    /\ pull[t].stage = "loop"
    /\ pull[t].arg = "this"
    /\ pull[t].keys # <<>>
    /\ Enter(t, "Get", <<Head(pull[t].keys)>>)
    /\ pull' = [pull EXCEPT ![t].stage = "getret"]

\* v, _ := other.Get(k), other being the first cache: the call returns
PullTakeGet(t) ==
    /\ pull[t].stage = "getret"
    /\ Unlock(t)
    /\ pull' = [pull EXCEPT ![t].v = Ret(frame[t])[1],
                            ![t].found = Ret(frame[t])[2],
                            ![t].stage = "put"]

\* c.Put(k, v), c being the second cache: c.lock.Lock()
OtherPutEnter(t) ==
    /\ pull[t].stage = "put"
    /\ pull[t].recv = "other"
    /\ CanLock(otherLock) /\ Admits(otherLock, t)
    /\ otherLock' = [otherLock EXCEPT !.w = TRUE, !.q = Left(otherLock, t)]
    /\ pull' = [pull EXCEPT ![t].stage = "otherput"]
    /\ UNCHANGED <<store, lock, policy, backend, persisted, pc, frame, abs, triggers>>
    /\ UNCHANGED <<other, tally, flushed>>

\* faulty variant: Put returns without the deferred Unlock
OtherUnlockedNever(l) == l

\* the mutex of the second cache after the deferred c.lock.Unlock()
OtherUnlocked(l) == [l EXCEPT !.w = FALSE]

\* c.Put(k, v), c being the second cache: the body of Put, with the flush
\* its policy may ask for, and the deferred c.lock.Unlock()
OtherPutExit(t) ==
    /\ pull[t].stage = "otherput"
    /\ other' = Sequential(other, PullStoresWith(pull[t].op),
                           <<Head(pull[t].keys), pull[t].v>>).map
    /\ otherLock' = OtherUnlocked(otherLock)
    /\ pull' = [u \in Threads |->
                   IF u = t
                   THEN [pull[t] EXCEPT !.keys = Tail(@), !.stage = "loop"]
                   ELSE IF pull[u].arg = "other"
                        THEN [pull[u] EXCEPT !.held = @ \cup Pairs(other')]
                        ELSE pull[u]]
    /\ UNCHANGED <<store, lock, policy, backend, persisted, pc, frame, abs, triggers>>
    /\ UNCHANGED <<tally, flushed>>

\* the mutex that the next statement of the Pull or Merge of t asks for:
\* "this" for the first cache, "other" for the second, "none" otherwise
Wants(t) ==
    CASE pull[t].stage = "keys" -> pull[t].arg
      [] pull[t].stage = "loop" /\ pc[t] = "idle" /\ pull[t].keys # <<>> -> pull[t].arg
      [] pull[t].stage = "put" -> pull[t].recv
      [] OTHER -> "none"

\* the next statement of the Pull or Merge of t asks for the exclusive lock
WantsWrite(t) == pull[t].stage = "put"

\* mutex l cannot be given to t now: t has to wait
MustWait(l, t) ==
    \/ ~Admits(l, t)
    \/ IF WantsWrite(t) THEN ~CanLock(l) ELSE ~CanRLock(l)

\* the goroutines blocked in mutex l
Blocked(l) == {l.q[i] : i \in 1..Len(l.q)}

\* Lock / RLock of the first cache blocks: t waits behind the goroutines
\* that are blocked in it already
BlockThis(t) ==
    /\ Wants(t) = "this"
    /\ t \notin Blocked(lock)
    /\ MustWait(lock, t)
    /\ lock' = [lock EXCEPT !.q = Append(@, t)]
    /\ UNCHANGED <<store, policy, backend, persisted, pc, frame, abs, triggers>>
    /\ UNCHANGED <<other, otherLock, pull, tally, flushed>>

\* Lock / RLock of the second cache blocks
BlockOther(t) ==
    /\ Wants(t) = "other"
    /\ t \notin Blocked(otherLock)
    /\ MustWait(otherLock, t)
    /\ otherLock' = [otherLock EXCEPT !.q = Append(@, t)]
    /\ UNCHANGED <<store, lock, policy, backend, persisted, pc, frame, abs, triggers>>
    /\ UNCHANGED <<other, pull, tally, flushed>>

\* another goroutine runs Put, Replace, Delete or Clear on the second cache,
\* start to end (the operation holds that cache's lock throughout); the
\* pairs it leaves are pairs that the second cache held during the Pulls
\* that are under way
OtherMutate(o, a) ==
    /\ CanLock(otherLock) /\ otherLock.q = <<>>
    /\ other' = Sequential(other, o, a).map
    /\ pull' = [t \in Threads |->
                   IF pull[t].arg = "other"
                   THEN [pull[t] EXCEPT !.held = @ \cup Pairs(other')]
                   ELSE pull[t]]
    /\ UNCHANGED <<store, lock, policy, backend, persisted, pc, frame, abs, triggers>>
    /\ UNCHANGED <<otherLock, tally, flushed>>

\* a second cache, built on a copy of the file that this cache has flushed
\* to, calls Load between two calls of this cache
ReplicaLoad ==
    /\ \A t \in Threads : pc[t] = "idle"
    /\ ~ReadErrs(backend, persisted)
    /\ other' = Loaded(other, persisted)
    /\ UNCHANGED <<store, lock, policy, backend, persisted, pc, frame, abs, triggers>>
    /\ UNCHANGED <<otherLock, pull, tally, flushed>>

\* the steps that any backend allows thread t to take
Step(t) ==
    \/ \E o \in Ops : \E a \in ArgsOf(o) : Call(t, o, a)
    \/ Lookup(t)
    \/ Assign(t)
    \/ SizeStep(t)
    \/ Iterate(t)
    \/ IterateDone(t)
    \/ Trigger(t)
    \/ EncodeStep(t)
    \/ EncodeFails(t)
    \/ WriteStep(t)
    \/ WriteFails(t)
    \/ ReadFails(t)
    \/ Release(t)

\* the goroutine of the sequential specification
Main == MinOf(Threads)

\* one goroutine, any backend; there is no second cache, and Pull and Merge
\* can only be given nil
Next ==
    \/ Step(Main)
    \/ ReadStep(Main)
    \/ DecodeStep(Main)
    \/ DecodeFails(Main)
    \/ \E o \in PullOps : PullCall(Main, o, "nil")
    \/ PullReturn(Main)

Spec == Init /\ [][Next]_vars

\* one goroutine and a cache that flushes every mutation to a file, with an
\* encoding and a file that do not fail; a replica loads copies of the file
ReplicaInit == Init /\ backend = "File" /\ policy.kind = "Always"

ReplicaNext ==
    \/ \E o \in Ops : \E a \in ArgsOf(o) : Call(Main, o, a)
    \/ Lookup(Main)
    \/ Assign(Main)
    \/ SizeStep(Main)
    \/ Iterate(Main)
    \/ IterateDone(Main)
    \/ Trigger(Main)
    \/ EncodeStep(Main)
    \/ WriteStep(Main)
    \/ ReadStep(Main)
    \/ ReadFails(Main)
    \/ DecodeStep(Main)
    \/ Release(Main)
    \/ ReplicaLoad

ReplicaSpec == ReplicaInit /\ [][ReplicaNext]_vars

\* one goroutine and a cache built with a Batched policy, the zero value
\* Batched{} included, and the default backend; the Trigger calls are
\* counted, up to MaxTriggers of them
BatchInit ==
    /\ Built
    /\ policy \in {[kind |-> "Batched", Size |-> n, count |-> 0] : n \in 0..MaxSize}
    /\ backend = "Discard"
    /\ other = EmptyMap
    /\ tally = [NoTally EXCEPT !.on = TRUE]

BatchNext == Step(Main)

BatchSpec == BatchInit /\ [][BatchNext]_vars

\* one goroutine and two caches: the receiver, built with the Always or the
\* Never policy and the default backend, and a second cache holding any
\* mapping
PullInit ==
    /\ Built
    /\ policy \in {p \in Policies : p.kind # "Batched"}
    /\ backend = "Discard"
    /\ other \in Maps
    /\ tally = NoTally

PullNext ==
    \/ Step(Main)
    \/ \E o \in PullOps : \E arg \in PullArgs : PullCall(Main, o, arg)
    \/ PullKeys(Main)
    \/ PullGet(Main)
    \/ PullPut(Main)
    \/ PullDone(Main)
    \/ PullReturn(Main)

PullSpec == PullInit /\ [][PullNext]_vars

\* one goroutine that only pulls and merges, into a receiver built with the
\* default policy (Never), while other goroutines mutate the second cache
RaceInit == PullInit /\ policy.kind = "Never"

RaceNext ==
    \/ \E o \in PullOps : \E arg \in PullArgs : PullCall(Main, o, arg)
    \/ PullKeys(Main)
    \/ PullGet(Main)
    \/ PullPut(Main)
    \/ Lookup(Main)
    \/ Assign(Main)
    \/ Trigger(Main)
    \/ Release(Main)
    \/ PullDone(Main)
    \/ PullReturn(Main)
    \/ \E o \in MutatingOps : \E a \in ArgsOf(o) : OtherMutate(o, a)

RaceSpec == RaceInit /\ [][RaceNext]_vars

\* all goroutines pull and merge between two caches, in both directions and
\* from a cache into itself; the first cache flushes at every mutation; each
\* goroutine that can take a step takes one in the end
LiveInit ==
    /\ Built
    /\ policy \in {p \in Policies : p.kind = "Always"}
    /\ backend = "Discard"
    /\ other = [k \in K |-> MaxVal]
    /\ tally = NoTally

\* a statement of a call that goroutine t has begun
Progress(t) ==
    \/ PullKeys(t)
    \/ PullGet(t)
    \/ PullPut(t)
    \/ PullKeysThis(t)
    \/ PullTakeKeys(t)
    \/ PullGetThis(t)
    \/ PullTakeGet(t)
    \/ OtherPutEnter(t)
    \/ OtherPutExit(t)
    \/ BlockThis(t)
    \/ BlockOther(t)
    \/ Lookup(t)
    \/ Assign(t)
    \/ Iterate(t)
    \/ IterateDone(t)
    \/ Trigger(t)
    \/ EncodeStep(t)
    \/ EncodeFails(t)
    \/ WriteStep(t)
    \/ WriteFails(t)
    \/ Release(t)
    \/ PullDone(t)
    \/ PullReturn(t)

\* where goroutine t is in its call: every statement of Progress(t) moves it
Position(t) ==
    <<pc[t], pull[t].stage, Len(frame[t].keys), Len(pull[t].keys),
      Len(lock.q), Len(otherLock.q)>>

LiveNext ==
    \E t \in Threads :
        \/ \E o \in PullOps : \E arg \in PullSources : PullCall(t, o, arg)
        \/ \E o \in PullOps : RevCall(t, o)
        \/ Progress(t)

LiveSpec ==
    /\ LiveInit
    /\ [][LiveNext]_vars
    /\ \A t \in Threads : WF_Position(t)(Progress(t))

\* all goroutines, the default backend: its Read fails, so that Load stops
\* at ReadFails
ConcInit == Init /\ backend = "Discard"

ConcNext == \E t \in Threads : Step(t)

ConcSpec == ConcInit /\ [][ConcNext]_vars

\* ---- type correctness ----
TypeOK ==
    /\ store \in Maps
    /\ abs \in Maps
    /\ lock.w \in BOOLEAN /\ lock.r \in 0..NumThreads
    /\ backend \in Backends
    /\ other \in Maps
    /\ flushed \in Maps
    /\ tally.on \in BOOLEAN /\ tally.trig \in 0..MaxTriggers
    /\ tally.flush \in 0..tally.trig
    /\ \A t \in Threads :
           /\ pull[t].op \in PullOps \cup {"none"}
           /\ pull[t].stage \in {"none", "keys", "keysret", "loop", "getret",
                                  "put", "otherput", "return"}
           /\ pull[t].recv \in {"this", "other"}
    /\ lock.q \in Seq(Threads) /\ otherLock.q \in Seq(Threads)
    /\ otherLock.w \in BOOLEAN /\ otherLock.r \in 0..NumThreads
    /\ pc \in [Threads -> {"idle", "lookup", "assign", "len", "iter",
                           "trigger", "encode", "write", "read", "decode", "unlock"}]

\* ---- vocabulary of the properties ----
\* thread t holds the lock (it is between Lock/RLock and the deferred unlock)
InCS(t) == pc[t] # "idle"

\* thread t has run operation o and is at its return, the lock still held
Returning(t, o) == pc[t] = "unlock" /\ frame[t].op = o

WritersInCS == {t \in Threads : InCS(t) /\ frame[t].op \in WriteOps}

ReadersInCS == {t \in Threads : InCS(t) /\ frame[t].op \in ReadOps}

\* what Get(k) returns when it runs next on mapping m
GetOn(m, k) == MapIndex(m, k)

\* C1: a Put(k, v) of a key that was not in the cache returns true, and a
\* Get(k) that follows it returns (v, true).
PutAbsentInserts ==
    \A t \in Threads :
        (Returning(t, "Put") /\ frame[t].args[1] \notin DOMAIN frame[t].pre)
        => /\ Ret(frame[t]) = TRUE
           /\ GetOn(store, frame[t].args[1]) = <<frame[t].args[2], TRUE>>

PutAbsentInsertsWitness ==
    \E t \in Threads :
        /\ Returning(t, "Put")
        /\ frame[t].args[1] \notin DOMAIN frame[t].pre
        /\ frame[t].args[2] # ZeroValue
        /\ frame[t].pre # EmptyMap

\* C2: a Put(k, v2) of a key already holding v1 returns false and does not
\* overwrite: a Get(k) that follows it returns (v1, true), whatever v2 is.
PutPresentKeeps ==
    \A t \in Threads :
        (Returning(t, "Put") /\ frame[t].args[1] \in DOMAIN frame[t].pre)
        => /\ Ret(frame[t]) = FALSE
           /\ GetOn(store, frame[t].args[1]) = <<frame[t].pre[frame[t].args[1]], TRUE>>

PutPresentKeepsWitness ==
    \E t \in Threads :
        /\ Returning(t, "Put")
        /\ frame[t].args[1] \in DOMAIN frame[t].pre
        /\ frame[t].pre[frame[t].args[1]] # frame[t].args[2]

\* C3: Replace(k, v2) returns (v1, true) on a key holding v1 and (zero value,
\* false) on an absent key, and in both cases a Get(k) that follows returns
\* (v2, true).
ReplaceStores ==
    \A t \in Threads :
        Returning(t, "Replace")
        => LET k == frame[t].args[1]
               pre == frame[t].pre
           IN  /\ k \in DOMAIN pre => Ret(frame[t]) = <<pre[k], TRUE>>
               /\ k \notin DOMAIN pre => Ret(frame[t]) = <<ZeroValue, FALSE>>
               /\ GetOn(store, k) = <<frame[t].args[2], TRUE>>

ReplaceStoresWitness ==
    \E t \in Threads :
        /\ Returning(t, "Replace")
        /\ frame[t].args[1] \in DOMAIN frame[t].pre
        /\ frame[t].pre[frame[t].args[1]] # frame[t].args[2]
        /\ frame[t].pre[frame[t].args[1]] # ZeroValue

\* C4: Delete(k) of an absent key returns (zero value, false) and leaves the
\* mapping as it was; of a key holding v it returns (v, true), removes k and
\* nothing else, and a Get(k) that follows returns (zero value, false).
DeleteRemoves ==
    \A t \in Threads :
        Returning(t, "Delete")
        => LET k == frame[t].args[1]
               pre == frame[t].pre
           IN  /\ k \notin DOMAIN pre
                  => Ret(frame[t]) = <<ZeroValue, FALSE>> /\ store = pre
               /\ k \in DOMAIN pre
                  => /\ Ret(frame[t]) = <<pre[k], TRUE>>
                     /\ DOMAIN store = DOMAIN pre \ {k}
                     /\ \A x \in DOMAIN store : store[x] = pre[x]
                     /\ GetOn(store, k) = <<ZeroValue, FALSE>>

DeleteRemovesWitness ==
    \E t \in Threads :
        /\ Returning(t, "Delete")
        /\ frame[t].args[1] \in DOMAIN frame[t].pre
        /\ frame[t].pre[frame[t].args[1]] # ZeroValue
        /\ store # EmptyMap

\* C5: Size() returns the number of keys the mapping holds and Keys() returns
\* exactly those keys, each of them once, in whatever state the earlier Put,
\* Replace, Delete and Clear calls have left the mapping.
SizeAndKeysAreLive ==
    \A t \in Threads :
        /\ Returning(t, "Size") => Ret(frame[t]) = Cardinality(DOMAIN store)
        /\ Returning(t, "Keys")
           => /\ Range(Ret(frame[t])) = DOMAIN store
              /\ \A i, j \in DOMAIN Ret(frame[t]) :
                    Ret(frame[t])[i] = Ret(frame[t])[j] => i = j

SizeAndKeysAreLiveWitness ==
    \E t \in Threads :
        /\ Returning(t, "Keys")
        /\ Cardinality(DOMAIN store) = NumKeys
        /\ Ret(frame[t])[1] # MinOf(DOMAIN store)

\* C6: right after Clear() the mapping is empty: Size() is 0, Keys() is empty
\* and Get(k) returns (zero value, false) for every k.
ClearEmpties ==
    \A t \in Threads :
        Returning(t, "Clear")
        => /\ Cardinality(DOMAIN store) = 0
           /\ Unvisited(store, <<>>) = {}
           /\ \A k \in K : GetOn(store, k) = <<ZeroValue, FALSE>>

ClearEmptiesWitness ==
    \E t \in Threads :
        Returning(t, "Clear") /\ Cardinality(DOMAIN frame[t].pre) = NumKeys

\* C7: at most one of Put, Replace, Delete, Clear, Load is inside its critical
\* section, and while one is, no Get, Size, Keys or Store is inside its own;
\* the mapping a reader sees is the one it found when it took the lock.
MutualExclusion ==
    /\ Cardinality(WritersInCS) <= 1
    /\ WritersInCS # {} => ReadersInCS = {}
    /\ \A t \in ReadersInCS : store = frame[t].pre

\* a writer is half way (it has written, its flush is not done) and every
\* other goroutine is outside, unable to enter
MutualExclusionWitness ==
    \E t \in WritersInCS :
        /\ pc[t] = "encode"
        /\ store # frame[t].pre
        /\ \A u \in Threads \ {t} : ~InCS(u) /\ ~CanRLock(lock)

\* the result the call is about to return is the one the sequential execution
\* gives it (Keys: the same keys, in any order)
RetMatches(f) ==
    IF f.op = "Keys"
    THEN Range(f.keys) = f.exp[1] /\ Len(f.keys) = Cardinality(f.exp[1])
    ELSE Ret(f) = f.exp[1]

LinOps == {"Put", "Replace", "Delete", "Clear", "Get", "Size", "Keys"}

\* C8: concurrent calls are linearizable: each call takes effect at the moment
\* it acquires the lock, between its invocation and its return; executed one
\* after the other in that order, the calls return the same results, and the
\* mapping is the sequential one whenever no mutation is in progress and when
\* a mutating call returns.
Linearizable ==
    /\ \A t \in Threads :
          (pc[t] = "unlock" /\ frame[t].op \in LinOps) => RetMatches(frame[t])
    /\ WritersInCS = {} => store = abs
    /\ \A t \in WritersInCS : pc[t] = "unlock" => store = abs

\* two calls overlap (both hold the read lock) after a mutation: a Get that
\* finds a value that a mutation stored and a Keys that is half way
LinearizableWitness ==
    \E t, u \in Threads :
        /\ Returning(t, "Get") /\ Ret(frame[t]) = <<MaxVal, TRUE>>
        /\ pc[u] = "iter" /\ Len(frame[u].keys) = 1
        /\ Cardinality(DOMAIN store) = NumKeys

\* the threads that are inside a flush (Encode of the mapping, then Write)
Flushing == {t \in Threads : pc[t] \in {"encode", "write"}}

\* C9: flushes are serialized: no two flushes (Encode of the mapping followed
\* by Write to the backend) are in progress at the same time.
FlushesSerialized == Cardinality(Flushing) <= 1

\* C10 as stated: every call of Put, Replace, Delete or Clear invokes the
\* policy's Trigger exactly once, whether or not it changed the mapping.
TriggerOncePerCall ==
    \A t \in Threads :
        (pc[t] = "unlock" /\ frame[t].op \in MutatingOps) => triggers[t] = 1

\* C10 (amended): every call of Replace, Delete or Clear, and every Put that
\* inserts, invokes the policy's Trigger exactly once, a Delete of an absent
\* key included; a Put of a key already present does not invoke it.
TriggerOncePerMutation ==
    \A t \in Threads :
        /\ (pc[t] = "unlock" /\ frame[t].op \in {"Replace", "Delete", "Clear"})
           => triggers[t] = 1
        /\ Returning(t, "Put")
           => triggers[t] = IF frame[t].args[1] \in DOMAIN frame[t].pre THEN 0 ELSE 1

TriggerOncePerMutationWitness ==
    \E t \in Threads :
        /\ Returning(t, "Delete")
        /\ frame[t].args[1] \notin DOMAIN frame[t].pre
        /\ triggers[t] = 1
        /\ policy.kind = "Batched" /\ policy.count > 0

\* C11: Put consults the flush policy only on insertion: a Put(k, v) that
\* returns false leaves the mapping, the policy (its counter) and the
\* persisted snapshot as they were when the call began, and makes no Trigger
\* call.
PutPresentTouchesNothing ==
    \A t \in Threads :
        (Returning(t, "Put") /\ Ret(frame[t]) = FALSE)
        => /\ store = frame[t].pre
           /\ policy = frame[t].prePolicy
           /\ persisted = frame[t].prePersisted
           /\ triggers[t] = 0

\* a Put of another value on a key that is present, with a batch half full
\* and a snapshot on file
PutPresentTouchesNothingWitness ==
    \E t \in Threads :
        /\ Returning(t, "Put") /\ Ret(frame[t]) = FALSE
        /\ frame[t].pre[frame[t].args[1]] # frame[t].args[2]
        /\ policy.kind = "Batched" /\ policy.count > 0
        /\ backend = "File" /\ persisted # "nodata"

\* data holds one entry for each key of m, with the value m has for it, and
\* nothing else: the whole of m
IsSnapshotOf(data, m) ==
    /\ data # "nodata"
    /\ Len(data) = Cardinality(DOMAIN m)
    /\ Range(data) = {<<k, m[k]>> : k \in DOMAIN m}

\* thread t is at the return of a call that changed, or might have changed,
\* the mapping: Replace, Delete, Clear, or a Put that inserted
Mutated(t) ==
    /\ pc[t] = "unlock"
    /\ \/ frame[t].op \in {"Replace", "Delete", "Clear"}
       \/ frame[t].op = "Put" /\ Ret(frame[t]) = TRUE

\* the bytes that thread t's call handed to Write, and the bytes on file,
\* are the whole mapping as it stands
FlushedWhole(t) ==
    /\ IsSnapshotOf(frame[t].data, store)
    /\ backend = "File" => IsSnapshotOf(persisted, store)

\* C13 as stated: with the Always policy, unless Write fails, the bytes last
\* written at the end of each Replace, Delete, Clear or inserting Put are the
\* encoding of the whole mapping as it stands.
AlwaysFlushesWholeUnlessWriteFails ==
    \A t \in Threads :
        (policy.kind = "Always" /\ Mutated(t) /\ frame[t].err # "write")
        => FlushedWhole(t)

\* C13 (amended): with the Always policy, when both Encode and Write succeed,
\* the bytes last written at the end of each Replace, Delete, Clear or
\* inserting Put are the encoding of the whole mapping as it stands; when
\* Encode fails, nothing is written and the backend keeps what it held.
AlwaysFlushesWhole ==
    \A t \in Threads :
        (policy.kind = "Always" /\ Mutated(t))
        => /\ frame[t].err = "nil" => FlushedWhole(t)
           /\ frame[t].err # "nil" => persisted = frame[t].prePersisted

\* a Delete that leaves one key of two: the file holds the one entry that is
\* left, not the deleted one and not what it held before
AlwaysFlushesWholeWitness ==
    \E t \in Threads :
        /\ policy.kind = "Always" /\ backend = "File"
        /\ Returning(t, "Delete") /\ frame[t].err = "nil"
        /\ Cardinality(DOMAIN frame[t].pre) = NumKeys
        /\ Cardinality(DOMAIN store) = NumKeys - 1
        /\ persisted # frame[t].prePersisted

\* C14: with the Never policy no Put, Replace, Delete, Clear or Load reaches
\* the flush (Encode, then Write): only Store does, and the persisted snapshot
\* is the same at the end of every other call as at its beginning.
NeverFlushesOnlyOnStore ==
    policy.kind = "Never"
    => \A t \in Threads :
           /\ t \in Flushing => frame[t].op = "Store"
           /\ (InCS(t) /\ frame[t].op # "Store")
              => persisted = frame[t].prePersisted

\* a Clear of a cache with entries, after a Store has put a snapshot on file:
\* the file still holds the entries
NeverFlushesOnlyOnStoreWitness ==
    \E t \in Threads :
        /\ policy.kind = "Never" /\ backend = "File"
        /\ Returning(t, "Clear") /\ triggers[t] = 1
        /\ frame[t].pre # EmptyMap
        /\ persisted # "nodata" /\ Decode(persisted) = frame[t].pre

\* C15: Store flushes whatever the policy, without consulting it: at its
\* return the mapping and the policy are as they were, the result is nil or
\* the error of Encode or of Write, and when it is nil the bytes written are
\* the encoding of the whole mapping; when it is an error the backend holds
\* what it held.
StoreFlushesUnconditionally ==
    \A t \in Threads :
        Returning(t, "Store")
        => /\ store = frame[t].pre
           /\ policy = frame[t].prePolicy /\ triggers[t] = 0
           /\ Ret(frame[t]) \in {"nil", "encode", "write"}
           /\ Ret(frame[t]) = "nil" => FlushedWhole(t)
           /\ Ret(frame[t]) # "nil" => persisted = frame[t].prePersisted

\* a Store of a full cache in the middle of a batch, which changes the file
StoreFlushesUnconditionallyWitness ==
    \E t \in Threads :
        /\ Returning(t, "Store") /\ Ret(frame[t]) = "nil"
        /\ policy.kind = "Batched" /\ policy.count > 0
        /\ backend = "File"
        /\ Cardinality(DOMAIN store) = NumKeys
        /\ persisted # frame[t].prePersisted

\* C16: a successful Load replaces the mapping wholesale: at its return the
\* mapping is exactly the snapshot that was on file (one key per entry, with
\* the entry's value), and a key that was in memory and is not in the
\* snapshot is gone.
LoadReplacesWholesale ==
    \A t \in Threads :
        (Returning(t, "Load") /\ Ret(frame[t]) = "nil")
        => /\ IsSnapshotOf(frame[t].prePersisted, store)
           /\ \A k \in DOMAIN frame[t].pre :
                  (\A v \in V : <<k, v>> \notin Range(frame[t].prePersisted))
                  => k \notin DOMAIN store

\* a Load of a snapshot with one entry into a cache that holds another key
LoadReplacesWholesaleWitness ==
    \E t \in Threads :
        /\ Returning(t, "Load") /\ Ret(frame[t]) = "nil"
        /\ store # EmptyMap
        /\ DOMAIN frame[t].pre \ DOMAIN store # {}

\* what a round trip through the encoding and the file gives back
RoundTripState ==
    /\ Decode(Encode(store)) = store
    /\ ~ReadErrs(backend, persisted) => Decode(persisted) = flushed
    /\ \A t \in Threads :
           (Returning(t, "Load") /\ Ret(frame[t]) = "nil")
           => store = flushed /\ store = frame[t].pre

\* the replica's mapping changes only to the mapping of the last flush
RoundTripStep == other' # other => other' = flushed

BatchedFlushesEveryNth ==
    LET n == policy.Size
        c == tally.trig
    IN  n >= 1
        => /\ policy.count = c % n
           /\ tally.flush = c \div n
           /\ \A t \in Threads :
                  (t \in Flushing /\ frame[t].op # "Store") => (c > 0 /\ c % n = 0)
           /\ n = 3 => /\ c < 3 => tally.flush = 0
                       /\ c \in 3..5 => tally.flush = 1
                       /\ c = 6 => tally.flush = 2

\* the sixth mutating call on a cache with Batched{Size: 3} starts the
\* second flush
BatchedFlushesEveryNthWitness ==
    /\ policy.Size = 3 /\ tally.trig = 6 /\ tally.flush = 2
    /\ \E t \in Threads : pc[t] = "encode" /\ frame[t].op \in MutatingOps

\* thread t is at the return of a Pull or Merge of the second cache
PullReturning(t) == pull[t].stage = "return" /\ pull[t].arg = "other"

PullReplacesCommon ==
    \A t \in Threads :
        (PullReturning(t) /\ pull[t].op = "Pull")
        => \A k \in DOMAIN pull[t].pre \cap DOMAIN pull[t].preOther :
               GetOn(store, k) = <<pull[t].preOther[k], TRUE>>

\* C20: Pull(nil) and Merge(nil) return an error, and the mapping, the
\* policy (its counter) and the persisted snapshot of the receiver are as
\* they were; no operation of the receiver was called.
PullNilFails ==
    \A t \in Threads :
        (pull[t].stage = "return" /\ pull[t].arg = "nil")
        => /\ pull[t].err # "nil"
           /\ store = pull[t].pre
           /\ policy = pull[t].prePolicy
           /\ persisted = pull[t].prePersisted
           /\ pc[t] = "idle"

\* Merge(nil) on a cache with entries, a batch half full and a snapshot
PullNilFailsWitness ==
    \E t \in Threads :
        /\ pull[t].stage = "return" /\ pull[t].arg = "nil" /\ pull[t].op = "Merge"
        /\ store # EmptyMap
        /\ policy.kind = "Batched" /\ policy.count > 0
        /\ backend = "File" /\ persisted # "nodata"

\* C21: a policy-triggered flush that fails does not touch the mutation: at
\* the return of a Put, Replace, Delete or Clear whose Encode or Write
\* failed, the mapping is the one the operation makes of the mapping it
\* found, the result is the one the operation gives when nothing fails (it
\* carries no error), and the backend holds what it held.
FailedFlushKeepsMutation ==
    \A t \in Threads :
        (pc[t] = "unlock" /\ frame[t].op \in MutatingOps /\ frame[t].err # "nil")
        => LET seq == Sequential(frame[t].pre, frame[t].op, frame[t].args)
           IN  /\ store = seq.map
               /\ Ret(frame[t]) = seq.ret
               /\ persisted = frame[t].prePersisted

\* an inserting Put whose Write failed: the key is in memory and not on file
FailedFlushKeepsMutationWitness ==
    \E t \in Threads :
        /\ Returning(t, "Put") /\ frame[t].err = "write"
        /\ Ret(frame[t]) = TRUE
        /\ store # frame[t].pre
        /\ backend = "File" /\ persisted # "nodata"
        /\ Decode(persisted) # store

\* C22: Get, Size and Keys are read-only: at every step of such a call the
\* mapping, the policy (its counter) and the persisted snapshot are those it
\* found, it has made no Trigger call, and it is not in Trigger, Encode or
\* Write.
ReadsTouchNothing ==
    \A t \in Threads :
        (InCS(t) /\ frame[t].op \in {"Get", "Size", "Keys"})
        => /\ store = frame[t].pre
           /\ policy = frame[t].prePolicy
           /\ persisted = frame[t].prePersisted
           /\ triggers[t] = 0
           /\ pc[t] \notin {"trigger", "encode", "write"}
           /\ frame[t].data = <<>>

\* a Keys that has listed a full cache, with a batch half full and a
\* snapshot on file
ReadsTouchNothingWitness ==
    \E t \in Threads :
        /\ Returning(t, "Keys") /\ Len(Ret(frame[t])) = NumKeys
        /\ policy.kind = "Batched" /\ policy.count > 0
        /\ backend = "File" /\ persisted # "nodata"

\* C27: a failed Load changes nothing: a Load whose Read or Decode failed
\* returns that error, with the mapping, the policy (its counter) and the
\* persisted snapshot as they were; with a backend that cannot read
\* (Discard) every Load fails so.
FailedLoadTouchesNothing ==
    \A t \in Threads :
        Returning(t, "Load")
        => /\ backend = "Discard" => Ret(frame[t]) = "read"
           /\ Ret(frame[t]) \in {"nil", "read", "decode"}
           /\ frame[t].err # "nil"
              => /\ Ret(frame[t]) = frame[t].err
                 /\ store = frame[t].pre
                 /\ policy = frame[t].prePolicy
                 /\ persisted = frame[t].prePersisted

\* a Load whose Decode failed, on a cache that holds entries that differ
\* from the file's
FailedLoadTouchesNothingWitness ==
    \E t \in Threads :
        /\ Returning(t, "Load") /\ Ret(frame[t]) = "decode"
        /\ store # EmptyMap
        /\ persisted # "nodata" /\ Decode(persisted) # store
        /\ policy.kind = "Batched" /\ policy.count > 0

\* C25: Store and Load never advance the policy: at every step of a Store or
\* a Load the policy (the Batched counter) is as the call found it and no
\* Trigger call was made; and a call that is at Trigger is a Put, Replace,
\* Delete or Clear holding the exclusive lock.
StoreLoadSkipPolicy ==
    \A t \in Threads :
        /\ (InCS(t) /\ frame[t].op \in {"Store", "Load"})
           => /\ policy = frame[t].prePolicy
              /\ triggers[t] = 0
              /\ pc[t] # "trigger"
        /\ pc[t] = "trigger"
           => /\ frame[t].op \in MutatingOps
              /\ lock.w /\ lock.r = 0

\* a Load that has replaced the mapping in the middle of a batch
StoreLoadSkipPolicyWitness ==
    \E t \in Threads :
        /\ Returning(t, "Load") /\ Ret(frame[t]) = "nil"
        /\ store # frame[t].pre
        /\ policy.kind = "Batched" /\ policy.count > 0

\* C26: the Batched counter: for Size >= 1 it stays within 0 <= count < Size,
\* and Size = 1 returns true on every call; for the zero value (Size = 0) it
\* counts every call, Trigger has returned false each time, and no mutating
\* call is in a flush.
BatchedCounterBounds ==
    /\ policy.Size >= 1 => (0 <= policy.count /\ policy.count < policy.Size)
    /\ policy.Size = 1 => tally.flush = tally.trig
    /\ policy.Size = 0
       => /\ policy.count = tally.trig
          /\ tally.flush = 0
          /\ \A t \in Threads : t \in Flushing => frame[t].op = "Store"

\* the zero value after MaxTriggers mutating calls: no flush yet
BatchedCounterBoundsWitness ==
    /\ policy.Size = 0 /\ policy.count = MaxTriggers
    /\ tally.trig = MaxTriggers
    /\ store # EmptyMap
    /\ \E t \in Threads : pc[t] = "unlock" /\ frame[t].op \in MutatingOps

\* C23: Pull and Merge import only pairs that the source held: every key
\* that a Pull or Merge under way has added to the receiver is there with a
\* value that the second cache held for that key at some moment since the
\* call began, whatever Put, Replace, Delete and Clear calls other
\* goroutines make on the second cache meanwhile.
PullImportsHeldPairs ==
    \A t \in Threads :
        pull[t].arg = "other"
        => \A k \in DOMAIN store \ DOMAIN pull[t].pre :
               <<k, store[k]>> \in pull[t].held

\* goroutine t holds the lock of the first cache / of the second cache
HoldsThis(t) == pc[t] # "idle"

HoldsOther(t) == pull[t].stage = "otherput"

\* no goroutine holds a lock while it asks for one or waits for one
NoHoldAndWait ==
    \A t \in Threads :
        (HoldsThis(t) \/ HoldsOther(t)) =>
            /\ ~(HoldsThis(t) /\ HoldsOther(t))
            /\ Wants(t) = "none"
            /\ t \notin Blocked(lock) \cup Blocked(otherLock)

\* C24: under fair scheduling no goroutine holds one lock while it acquires
\* another, and every Pull or Merge that has begun returns, when goroutines
\* pull in both directions between two caches and from a cache into itself
\* and the policy flushes at every mutation
CallsTerminate ==
    /\ []NoHoldAndWait
    /\ \A t \in Threads : (pull[t].op # "none") ~> (pull[t].op = "none")

\* a goroutine that pulls into the second cache holds its lock and stores,
\* while a goroutine that pulls from the second cache waits for that lock,
\* and the first cache has flushed
CallsTerminateWitness ==
    \E t \in Threads : \E u \in Threads :
        /\ pull[t].recv = "other" /\ pull[t].stage = "otherput"
        /\ pull[u].arg = "other" /\ u \in Blocked(otherLock)
        /\ store # EmptyMap
====
